---- MODULE Spec2Model ----
(***************************************************************************)
(* The centered heap (c-heap) of src/main.rs: a heap embedded in a slice   *)
(* a[lo..hi) whose root sits at an arbitrary index c, with children        *)
(* growing outward on both sides of c.                                     *)
(*                                                                         *)
(* The array is a function 0..n-1 -> Vals, so indices are the source's.    *)
(* A view (struct Cheap) is the record [a, lo, c, hi, cnt]; every method   *)
(* of Cheap is an operator from view to view, and every action applies one *)
(* method to the view held in the variables.                               *)
(***************************************************************************)
EXTENDS Integers, FiniteSets, Sequences, TLC

\* Longest array explored by the edit operations.
MaxLen == 4
\* Longest array explored by merge.
MaxMergeLen == 6
\* Longest array explored by recenter on its own and by the sort drivers.
MaxSortLen == 6
\* Longest array explored by the running sorts.
MaxRunLen == 5
\* Most compares and swaps a RealCounter has tallied when an edit operation
\* is still called on its view.
MaxCount == 4
\* Greatest element value explored; elements are 0..MaxVal.
MaxIndex == 16

MaxVal == 2

\* usize::MAX, the out-of-range sentinel of get_left_child / get_right_child
\* (scaled to the greatest 32-bit integer; it is only ever compared).
USIZE_MAX == 2147483647

Vals == 0..MaxVal
Arrays == UNION {[0..(n - 1) -> Vals] : n \in 0..MaxLen}
len(arr) == Cardinality(DOMAIN arr)

VARIABLES
    a,      \* the borrowed slice
    lo,     \* Cheap.lo
    c,      \* Cheap.c
    hi,     \* Cheap.hi
    cnt,    \* the Counter behind Cheap.cnt
    debug,  \* cfg!(debug_assertions): whether the build keeps debug_assert! and check()
    op,     \* the constructor or method that produced this state
    pre,    \* the view (and index argument) on entry to that method
    pc,     \* position of the running driver
    ix,     \* merge: the output cursor
    m_lo,   \* merge: parameter lo
    m_md,   \* merge: parameter md
    m_hi,   \* merge: parameter hi
    input,  \* the slice on entry to the running driver
    driver, \* the running driver: a sort of Op::run, "merge", or "none"
    run,    \* running sorts: parameter run
    report, \* main: out["is_sorted"], "unset" until it is written
    touched \* history: the indices of a that the last method compared or exchanged

vars == <<a, lo, c, hi, cnt, debug, op, pre, pc, ix, m_lo, m_md, m_hi, input,
          driver, run, report, touched>>

----------------------------------------------------------------------------
(* Index arithmetic *)

get_left_child(x, cc) ==
    IF x = cc
    THEN IF cc = 0 THEN USIZE_MAX ELSE cc - 1
    ELSE IF x > cc
         THEN cc + (x - cc) * 2
         ELSE LET o == (cc - x) * 2
              IN IF o > cc THEN USIZE_MAX ELSE cc - o

\* Mutant: to the right of the center the `+ 1` is left out.
get_right_child_no_offset(x, cc) ==
    IF x = cc
    THEN cc + 1
    ELSE IF x > cc
         THEN (x - cc) * 2 + cc
         ELSE LET o == (cc - x) * 2 + 1
              IN IF o > cc THEN USIZE_MAX ELSE cc - o

get_right_child(x, cc) ==
    IF x = cc
    THEN cc + 1
    ELSE IF x > cc
         THEN (x - cc) * 2 + 1 + cc
         ELSE LET o == (cc - x) * 2 + 1
              IN IF o > cc THEN USIZE_MAX ELSE cc - o

\* Mutant: half the distance from the center, rounded up.
get_parent_rounds_up(x, cc) ==
    IF x > cc THEN cc + (x - cc + 1) \div 2 ELSE cc - (cc - x + 1) \div 2

get_parent(x, cc) ==
    IF x > cc THEN cc + (x - cc) \div 2 ELSE cc - (cc - x) \div 2

get_recenter_limit(x, cc) ==
    IF x > cc THEN (x - cc + 1) \div 2 + cc ELSE cc - (cc - x + 1) \div 2

----------------------------------------------------------------------------
(* Counters *)

\* A counter is the record of its two tallies; `real` tells RealCounter from
\* DummyCounter, whose methods do nothing.  `evaluated` is a history field
\* that no code reads: the element comparisons a[j] < a[j - 1] small_sort
\* evaluated while a RealCounter is passed to it.  `exchanges` is a history field
\* that no code reads: the calls of <[E]>::swap made through the view while
\* a RealCounter is attached to it.
DummyCounter ==
    [real |-> FALSE, compares |-> 0, swaps |-> 0, exchanges |-> 0, evaluated |-> 0]

RealCounter ==
    [real |-> TRUE, compares |-> 0, swaps |-> 0, exchanges |-> 0, evaluated |-> 0]

count_compare(k) == IF k.real THEN [k EXCEPT !.compares = @ + 1] ELSE k

count_swap(k) == IF k.real THEN [k EXCEPT !.swaps = @ + 1] ELSE k

note_exchange(k) == IF k.real THEN [k EXCEPT !.exchanges = @ + 1] ELSE k

note_evaluated(k) == IF k.real THEN [k EXCEPT !.evaluated = @ + 1] ELSE k

----------------------------------------------------------------------------
(* Cheap: helpers *)

\* Mutant: the first slot is overwritten and the second is left as it was.
slice_swap_overwrites(arr, i, j) == [arr EXCEPT ![i] = arr[j]]

\* <[E]>::swap
slice_swap(arr, i, j) == [arr EXCEPT ![i] = arr[j], ![j] = arr[i]]

\* self.a.swap(i, j)
a_swap(s, i, j) ==
    [s EXCEPT !.a = slice_swap(@, i, j), !.cnt = note_exchange(@),
              !.touched = @ \cup {i, j}]

swap(s, i, j) == a_swap([s EXCEPT !.cnt = count_swap(@)], i, j)

\* bt is split in its value (bt) and its effect on the counter (bt_count),
\* which also notes the two indices read.
bt(s, i, j) == s.a[i] <= s.a[j]

bt_count(s, i, j) ==
    [s EXCEPT !.cnt = count_compare(@), !.touched = @ \cup {i, j}]

bt_nocount(s, i, j) == s.a[i] <= s.a[j]

check_range(s) ==
    /\ s.hi <= len(s.a)
    /\ \/ s.lo = s.c /\ s.c = s.hi
       \/ s.lo <= s.c /\ s.c <= s.hi

is_valid(s) ==
    \A i \in s.lo..(s.hi - 1) :
        i # s.c => bt_nocount(s, get_parent(i, s.c), i)

check(s) == check_range(s) /\ is_valid(s)

is_empty(s) == s.lo = s.hi

----------------------------------------------------------------------------
(* Cheap: sifts and recenter *)

RECURSIVE sift_out(_, _)
\* Mutant: the right child is never compared with the left one; the left
\* child is taken whenever it is better than the node.
sift_out_left_first(s, n) ==
    LET ch1   == get_left_child(n, s.c)
        in1   == s.lo <= ch1 /\ ch1 < s.hi
        bt1   == in1 /\ bt(s, ch1, n)
        ch2   == get_right_child(n, s.c)
        in2   == s.lo <= ch2 /\ ch2 < s.hi
        bt2   == in2 /\ bt(s, ch2, n)
        vio   == IF bt1 THEN ch1 ELSE ch2
    IN  IF bt1 \/ bt2 THEN sift_out(swap(s, n, vio), vio) ELSE s

sift_out(s, n) ==
    LET ch1   == get_left_child(n, s.c)
        in1   == s.lo <= ch1 /\ ch1 < s.hi
        bt1   == in1 /\ bt(s, ch1, n)
        s1    == IF in1 THEN bt_count(s, ch1, n) ELSE s
        ch2   == get_right_child(n, s.c)
        in2   == s.lo <= ch2 /\ ch2 < s.hi
        bt2   == in2 /\ bt(s, ch2, n)
        s2    == IF in2 THEN bt_count(s1, ch2, n) ELSE s1
        \* !vio_found || self.bt(ch2, vio): the second compare is made only
        \* when the left child was already chosen.
        s3    == IF bt2 /\ bt1 THEN bt_count(s2, ch2, ch1) ELSE s2
        take2 == bt2 /\ (~bt1 \/ bt(s, ch2, ch1))
        vio_found == bt1 \/ bt2
        vio   == IF take2 THEN ch2 ELSE ch1
    IN  IF vio_found THEN sift_out(swap(s3, n, vio), vio) ELSE s3

RECURSIVE sift_in(_, _)
\* Mutant: the walk to the parent is made around index 0 instead of c.
sift_in_around_zero(s, n) ==
    IF n # 0
    THEN LET p == get_parent(n, 0)
         IN IF bt(s, n, p)
            THEN sift_in(swap(bt_count(s, n, p), n, p), p)
            ELSE bt_count(s, n, p)
    ELSE s

sift_in(s, n) ==
    IF n # s.c
    THEN LET p == get_parent(n, s.c)
         IN IF bt(s, n, p)
            THEN sift_in(swap(bt_count(s, n, p), n, p), p)
            ELSE bt_count(s, n, p)
    ELSE s

\* One pass of sift_out's `while vio_found` loop at node n: the view
\* afterwards, the node it goes on with, and whether it goes on.
sift_out_iter(s, n) ==
    LET ch1   == get_left_child(n, s.c)
        in1   == s.lo <= ch1 /\ ch1 < s.hi
        bt1   == in1 /\ bt(s, ch1, n)
        s1    == IF in1 THEN bt_count(s, ch1, n) ELSE s
        ch2   == get_right_child(n, s.c)
        in2   == s.lo <= ch2 /\ ch2 < s.hi
        bt2   == in2 /\ bt(s, ch2, n)
        s2    == IF in2 THEN bt_count(s1, ch2, n) ELSE s1
        s3    == IF bt2 /\ bt1 THEN bt_count(s2, ch2, ch1) ELSE s2
        take2 == bt2 /\ (~bt1 \/ bt(s, ch2, ch1))
        vio_found == bt1 \/ bt2
        vio   == IF take2 THEN ch2 ELSE ch1
    IN  IF vio_found
        THEN [ch |-> swap(s3, n, vio), n |-> vio, vio_found |-> TRUE]
        ELSE [ch |-> s3, n |-> n, vio_found |-> FALSE]

\* Mutant: after the swap the walk stays at the node instead of going on
\* with the parent.
sift_in_iter_stays(s, n) ==
    LET p == get_parent(n, s.c)
    IN  IF bt(s, n, p)
        THEN [ch |-> swap(bt_count(s, n, p), n, p), n |-> n, again |-> TRUE]
        ELSE [ch |-> bt_count(s, n, p), n |-> n, again |-> FALSE]

\* One pass of the body of sift_in's `while n != c` loop at node n # c: the
\* view afterwards, the node it goes on with, and whether it did not break.
sift_in_iter(s, n) ==
    LET p == get_parent(n, s.c)
    IN  IF bt(s, n, p)
        THEN [ch |-> swap(bt_count(s, n, p), n, p), n |-> p, again |-> TRUE]
        ELSE [ch |-> bt_count(s, n, p), n |-> n, again |-> FALSE]

\* for i in get_recenter_limit(lo, c)..c
RECURSIVE recenter_lo(_, _)
recenter_lo(s, i) ==
    IF i < s.c THEN recenter_lo(sift_out(s, i), i + 1) ELSE s

\* for i in (c..get_recenter_limit(hi, c)).rev()
RECURSIVE recenter_hi(_, _)
\* Mutant: the loop stops before the root (c + 1 .. limit instead of c .. limit).
recenter_hi_skip_root(s, i) ==
    IF i > s.c THEN recenter_hi(sift_out(s, i), i - 1) ELSE s

recenter_hi(s, i) ==
    IF i >= s.c THEN recenter_hi(sift_out(s, i), i - 1) ELSE s

\* Mutant: the two loops run in the other order, the root's loop first.
recenter_hi_first(s) ==
    recenter_lo(recenter_hi(s, get_recenter_limit(s.hi, s.c) - 1),
                get_recenter_limit(s.lo, s.c))

recenter(s) ==
    recenter_hi(recenter_lo(s, get_recenter_limit(s.lo, s.c)),
                get_recenter_limit(s.hi, s.c) - 1)

----------------------------------------------------------------------------
(* Cheap: edit operations (the bodies after the assertions) *)

\* Mutant: the root is not swapped out to lo before lo advances.
pop_left_no_swap(s) ==
    LET lop == s.lo + 1
    IN  IF s.lo = s.c
        THEN IF lop < s.hi
             THEN recenter([s EXCEPT !.c = s.hi - 1, !.lo = lop])
             ELSE [s EXCEPT !.lo = lop, !.c = lop]
        ELSE sift_out([s EXCEPT !.lo = lop], s.c)

\* Mutant: a pop that empties the view leaves c behind.
pop_left_stale_c(s) ==
    LET lop == s.lo + 1
    IN  IF s.lo = s.c
        THEN IF lop < s.hi
             THEN recenter([s EXCEPT !.c = s.hi - 1, !.lo = lop])
             ELSE [s EXCEPT !.lo = lop]
        ELSE sift_out([swap(s, s.c, s.lo) EXCEPT !.lo = lop], s.c)

pop_left(s) ==
    LET lop == s.lo + 1
    IN  IF s.lo = s.c
        THEN IF lop < s.hi
             THEN recenter([s EXCEPT !.c = s.hi - 1, !.lo = lop])
             ELSE [s EXCEPT !.lo = lop, !.c = lop]
        ELSE sift_out([swap(s, s.c, s.lo) EXCEPT !.lo = lop], s.c)

\* Mutant: the root moves to lo without a recenter.
pop_right_no_recenter(s) ==
    LET hip == s.hi - 1
    IN  IF hip = s.c
        THEN [s EXCEPT !.c = s.lo, !.hi = hip]
        ELSE sift_out([a_swap(s, hip, s.c) EXCEPT !.hi = hip], s.c)

pop_right(s) ==
    LET hip == s.hi - 1
    IN  IF hip = s.c
        THEN LET t == [s EXCEPT !.c = s.lo, !.hi = hip]
             IN IF s.lo < hip THEN recenter(t) ELSE t
        ELSE sift_out([a_swap(s, hip, s.c) EXCEPT !.hi = hip], s.c)

\* Mutant: the absorbed element is not sifted in.
push_left_no_sift(s) ==
    LET lop == s.lo - 1
        t   == IF s.c = s.hi THEN [s EXCEPT !.c = lop] ELSE s
    IN  [t EXCEPT !.lo = lop]

push_left(s) ==
    LET lop == s.lo - 1
        t   == IF s.c = s.hi THEN [s EXCEPT !.c = lop] ELSE s
    IN  sift_in([t EXCEPT !.lo = lop], lop)

push_right(s) ==
    LET hip == s.hi + 1
    IN  [sift_in(s, s.hi) EXCEPT !.hi = hip]

push_left_swap(s, i) == push_left(swap(s, i, s.lo - 1))

\* Mutant: the element is taken in at the left end of the range.
push_right_swap_grows_left(s, i) == push_left(swap(s, i, s.lo - 1))

push_right_swap(s, i) == push_right(swap(s, i, s.hi))

\* Mutant: the new root is not sifted out.
poppush_no_sift(s, i) == swap(s, i, s.c)

poppush(s, i) == sift_out(swap(s, i, s.c), s.c)

\* Mutant: the comparison is the wrong way round.
pushpop_reversed(s, i) ==
    IF is_empty(s)
    THEN s
    ELSE IF bt(s, s.c, i)
         THEN bt_count(s, i, s.c)
         ELSE sift_out(swap(bt_count(s, i, s.c), i, s.c), s.c)

pushpop(s, i) ==
    IF is_empty(s)
    THEN s
    ELSE IF bt(s, i, s.c)
         THEN bt_count(s, i, s.c)
         ELSE sift_out(swap(bt_count(s, i, s.c), i, s.c), s.c)

\* Mutant: the incremental path renames the range without sifting in.
slide_right_no_sift(s) ==
    IF is_empty(s)
    THEN [s EXCEPT !.lo = @ + 1, !.c = @ + 1, !.hi = @ + 1]
    ELSE LET lop == s.lo + 1
             hip == s.hi + 1
             t   == swap(s, s.lo, s.hi)
         IN  IF s.c = s.lo
             THEN recenter([t EXCEPT !.c = s.hi, !.lo = lop, !.hi = hip])
             ELSE [t EXCEPT !.lo = lop, !.hi = hip]

slide_right(s) ==
    IF is_empty(s)
    THEN [s EXCEPT !.lo = @ + 1, !.c = @ + 1, !.hi = @ + 1]
    ELSE LET lop == s.lo + 1
             hip == s.hi + 1
             t   == swap(s, s.lo, s.hi)
         IN  IF s.c = s.lo
             THEN recenter([t EXCEPT !.c = s.hi, !.lo = lop, !.hi = hip])
             ELSE [sift_in(t, s.hi) EXCEPT !.lo = lop, !.hi = hip]

slide_left(s) ==
    IF is_empty(s)
    THEN [s EXCEPT !.lo = @ - 1, !.c = @ - 1, !.hi = @ - 1]
    ELSE LET lop == s.lo - 1
             hip == s.hi - 1
             t   == swap(s, lop, hip)
         IN  IF s.c = hip
             THEN recenter([t EXCEPT !.c = s.lo, !.lo = lop, !.hi = hip])
             ELSE [sift_in(t, lop) EXCEPT !.lo = lop, !.hi = hip]

----------------------------------------------------------------------------
(* Cheap: the edit operations as called, assertions included.  A call is   *)
(* the record [ch, panic]: the view it leaves and whether it panicked.     *)

\* #[cfg(debug_assertions)] self.check();
entry_check(s) == debug => check(s)

pop_left_call(s) ==
    IF entry_check(s) /\ ~is_empty(s)
    THEN [ch |-> pop_left(s), panic |-> FALSE]
    ELSE [ch |-> s, panic |-> TRUE]

pop_right_call(s) ==
    IF entry_check(s) /\ ~is_empty(s)
    THEN [ch |-> pop_right(s), panic |-> FALSE]
    ELSE [ch |-> s, panic |-> TRUE]

push_left_call(s) ==
    IF entry_check(s) /\ s.lo > 0 /\ (debug /\ s.c = s.hi => s.lo = s.c)
    THEN [ch |-> push_left(s), panic |-> FALSE]
    ELSE [ch |-> s, panic |-> TRUE]

push_right_call(s) ==
    IF entry_check(s) /\ s.hi < len(s.a)
    THEN [ch |-> push_right(s), panic |-> FALSE]
    ELSE [ch |-> s, panic |-> TRUE]

\* Mutant: the index is asserted to lie outside the heap only after the swap.
poppush_call_swaps_first(s, i) ==
    IF ~(entry_check(s) /\ ~is_empty(s))
    THEN [ch |-> s, panic |-> TRUE]
    ELSE IF ~(i < s.lo \/ i >= s.hi)
    THEN [ch |-> swap(s, i, s.c), panic |-> TRUE]
    ELSE [ch |-> poppush(s, i), panic |-> FALSE]

poppush_call(s, i) ==
    IF entry_check(s) /\ ~is_empty(s) /\ (i < s.lo \/ i >= s.hi)
    THEN [ch |-> poppush(s, i), panic |-> FALSE]
    ELSE [ch |-> s, panic |-> TRUE]

----------------------------------------------------------------------------
(* is_sorted, and merge's candidates *)

\* a[lo] is read before the loop: the call panics (index out of bounds)
\* when lo = a.len(), and on the failed assertion.
is_sorted_panics(arr, l, h) == ~(l <= h /\ h <= len(arr)) \/ l >= len(arr)

is_sorted(arr, l, h) == \A i \in (l + 1)..(h - 1) : ~(arr[i] < arr[i - 1])

\* enum MC: a candidate is its variant and the element it refers to.
MC_None == [tag |-> "None", val |-> 0]

MC(tag, v) == [tag |-> tag, val |-> v]

\* Mutant: on equal values the receiver is kept.
better_keeps_self(x, other) ==
    IF x.tag = "None"
    THEN other
    ELSE IF other.tag = "None"
         THEN x
         ELSE IF x.val <= other.val THEN x ELSE other

better(x, other) ==
    IF x.tag = "None"
    THEN other
    ELSE IF other.tag = "None"
         THEN x
         ELSE IF x.val < other.val THEN x ELSE other

\* better's effect on the counter: one compare when both are Some.
better_count(x, other, k) ==
    IF x.tag # "None" /\ other.tag # "None" THEN count_compare(k) ELSE k

\* The candidate selection of one iteration: [best, cnt].
select(s, ixx, mhi) ==
    LET b0 == IF ixx < s.lo THEN MC("Lo", s.a[ixx]) ELSE MC_None
        md == MC("Md", s.a[s.c])
        b1 == IF s.lo < s.hi THEN better(b0, md) ELSE b0
        k1 == IF s.lo < s.hi THEN better_count(b0, md, s.cnt) ELSE s.cnt
        h  == MC("Hi", s.a[s.hi])
        b2 == IF s.hi < mhi THEN better(b1, h) ELSE b1
        k2 == IF s.hi < mhi THEN better_count(b1, h, k1) ELSE k1
    IN  [best |-> b2, cnt |-> k2]

\* The assertions (and index checks) at the head of the methods merge calls.
poppush_ok(s, i) == ~is_empty(s) /\ (i < s.lo \/ i >= s.hi) /\ i < len(s.a)

push_right_swap_ok(s, i) == (i < s.lo \/ i >= s.hi) /\ i < len(s.a) /\ s.hi < len(s.a)

pop_left_ok(s) == ~is_empty(s)

slide_right_ok(s) == s.hi < len(s.a)

\* One iteration of merge's loop at cursor ixx: the view afterwards, what
\* the iteration did, and where control goes ("merge": next iteration,
\* "done": left the loop, "panic": a panic or failed assertion).
merge_iter(s, ixx, mhi) ==
    IF ixx >= s.hi
    THEN [ch |-> s, call |-> "break", pc |-> "done"]
    ELSE LET sel  == select(s, ixx, mhi)
             best == sel.best
             t    == [s EXCEPT !.cnt = sel.cnt]
             Do(name, ok, r) ==
                 IF ok /\ (debug => check(t))
                 THEN [ch |-> r, call |-> name, pc |-> "merge"]
                 ELSE [ch |-> t, call |-> name, pc |-> "panic"]
         IN  IF best.tag = "None"
             THEN [ch |-> t, call |-> "merge: logic error", pc |-> "panic"]
             ELSE IF best.tag = "Lo"
             THEN [ch |-> t, call |-> "continue", pc |-> "merge"]
             ELSE IF ixx < t.lo
             THEN IF best.tag = "Md"
                  THEN Do("poppush", poppush_ok(t, ixx), poppush(t, ixx))
                  ELSE Do("push_right_swap", push_right_swap_ok(t, ixx),
                          push_right_swap(t, ixx))
             ELSE IF ixx = t.lo
             THEN IF best.tag = "Md"
                  THEN Do("pop_left", pop_left_ok(t), pop_left(t))
                  ELSE Do("slide_right", slide_right_ok(t), slide_right(t))
             ELSE [ch |-> t, call |-> "merge: ix is invalid!", pc |-> "panic"]

----------------------------------------------------------------------------
(* merge as a whole, and the sorts built on it.  A run of one of these     *)
(* functions is the record [a, cnt, panic]: the slice and counter it       *)
(* leaves, and whether it ended in a panic.  Where one step's result feeds *)
(* the next, it is bound as the element of a one-element set, so that it   *)
(* is computed once.                                                       *)

\* debug_assert!(is_sorted(a, l, h)) lets the run go on.
debug_assert_is_sorted(arr, l, h) ==
    debug => ~is_sorted_panics(arr, l, h) /\ is_sorted(arr, l, h)

\* for ix in lo..hi { .. }
RECURSIVE merge_loop(_, _, _)
merge_loop(s, ixx, mhi) ==
    IF ixx >= mhi
    THEN [ch |-> s, panic |-> FALSE]
    ELSE CHOOSE out \in
             {IF r.pc = "merge"
              THEN merge_loop(r.ch, ixx + 1, mhi)
              ELSE [ch |-> r.ch, panic |-> r.pc = "panic"] :
                  r \in {merge_iter(s, ixx, mhi)}} : TRUE

merge(arr, mlo, mmd, mhi, k) ==
    IF debug_assert_is_sorted(arr, mlo, mmd) /\ debug_assert_is_sorted(arr, mmd, mhi)
    THEN CHOOSE out \in
             {[a     |-> r.ch.a,
               cnt   |-> r.ch.cnt,
               panic |-> r.panic \/ ~debug_assert_is_sorted(r.ch.a, mlo, mhi)] :
                  r \in {merge_loop([a |-> arr, lo |-> mmd, c |-> mmd, hi |-> mmd,
                                     cnt |-> k, touched |-> {}], mlo, mhi)}} : TRUE
    ELSE [a |-> arr, cnt |-> k, panic |-> TRUE]

\* while j > lo && a[j] < a[j - 1] { .. }  c.count_compare();
RECURSIVE small_sort_insert(_, _, _)
small_sort_insert(st, l, j) ==
    IF j > l /\ st.a[j] < st.a[j - 1]
    THEN CHOOSE out \in
             {small_sort_insert(t, l, j - 1) :
                  t \in {[st EXCEPT !.a = slice_swap(@, j - 1, j),
                                    !.cnt = note_exchange(count_swap(
                                                count_compare(note_evaluated(@))))]}} : TRUE
    ELSE [st EXCEPT !.cnt = count_compare(IF j > l THEN note_evaluated(@) ELSE @)]

\* for i in lo + 1..hi { .. }
RECURSIVE small_sort_loop(_, _, _, _)
small_sort_loop(st, l, h, i) ==
    IF i < h
    THEN CHOOSE out \in
             {small_sort_loop(t, l, h, i + 1) : t \in {small_sort_insert(st, l, i)}} : TRUE
    ELSE st

small_sort(arr, l, h, k) ==
    IF debug /\ ~(l <= h /\ h <= len(arr))
    THEN [a |-> arr, cnt |-> k, panic |-> TRUE]
    ELSE CHOOSE out \in
             {[r EXCEPT !.panic = ~debug_assert_is_sorted(r.a, l, h)] :
                  r \in {small_sort_loop([a |-> arr, cnt |-> k, panic |-> FALSE],
                                         l, h, l + 1)}} : TRUE

RECURSIVE merge_sort(_, _, _, _)
\* Mutant: the two sorted halves are returned without being merged.
merge_sort_unmerged(arr, l, h, k) ==
    IF h - l <= 4
    THEN small_sort(arr, l, h, k)
    ELSE LET midpoint == (l + h) \div 2
         IN  CHOOSE out \in
                 {merge_sort(r1.a, midpoint, h, r1.cnt) :
                      r1 \in {merge_sort(arr, l, midpoint, k)}} : TRUE

merge_sort(arr, l, h, k) ==
    IF debug /\ ~(l <= h /\ h <= len(arr))
    THEN [a |-> arr, cnt |-> k, panic |-> TRUE]
    ELSE IF h - l <= 4
    THEN small_sort(arr, l, h, k)
    ELSE LET midpoint == (l + h) \div 2
             Merged(r2) ==
                 CHOOSE out \in
                     {IF r3.panic
                      THEN r3
                      ELSE [r3 EXCEPT !.panic = ~debug_assert_is_sorted(r3.a, l, h)] :
                          r3 \in {merge(r2.a, l, midpoint, h, r2.cnt)}} : TRUE
             Right(r1) ==
                 CHOOSE out \in
                     {IF r2.panic THEN r2 ELSE Merged(r2) :
                          r2 \in {merge_sort(r1.a, midpoint, h, r1.cnt)}} : TRUE
         IN  CHOOSE out \in
                 {IF r1.panic THEN r1 ELSE Right(r1) :
                      r1 \in {merge_sort(arr, l, midpoint, k)}} : TRUE

\* One pass of running_sort_left's loop with window r: [ch, panic].
\* Mutant: the heap is popped once it holds more than r elements.
running_sort_left_iter_late(s, r) ==
    LET n      == len(s.a)
        pushed == IF s.hi < n THEN push_right(s) ELSE s
        pops   == pushed.hi - pushed.lo > r \/ pushed.hi = n
    IN  [ch |-> IF pops THEN pop_left(pushed) ELSE pushed, panic |-> FALSE]

running_sort_left_iter(s, r) ==
    LET n      == len(s.a)
        ok1    == s.hi < n => (debug => check(s))
        pushed == IF s.hi < n THEN push_right(s) ELSE s
        pops   == pushed.hi - pushed.lo >= r \/ pushed.hi = n
        ok2    == pops => (debug => check(pushed)) /\ ~is_empty(pushed)
    IN  IF ~ok1 THEN [ch |-> s, panic |-> TRUE]
        ELSE IF ~ok2 THEN [ch |-> pushed, panic |-> TRUE]
        ELSE [ch |-> IF pops THEN pop_left(pushed) ELSE pushed, panic |-> FALSE]

running_sort_right_iter(s, r) ==
    LET ok1    == s.lo > 0 => (debug => check(s) /\ (s.c = s.hi => s.lo = s.c))
        pushed == IF s.lo > 0 THEN push_left(s) ELSE s
        pops   == pushed.hi - pushed.lo >= r \/ pushed.lo = 0
        ok2    == pops => (debug => check(pushed)) /\ ~is_empty(pushed)
    IN  IF ~ok1 THEN [ch |-> s, panic |-> TRUE]
        ELSE IF ~ok2 THEN [ch |-> pushed, panic |-> TRUE]
        ELSE [ch |-> IF pops THEN pop_right(pushed) ELSE pushed, panic |-> FALSE]

\* Mutant: the slice is left as the pops filled it.
reverse_skipped(arr) == arr

\* <[E]>::reverse
reverse(arr) == [k \in DOMAIN arr |-> arr[len(arr) - 1 - k]]

----------------------------------------------------------------------------
(* Constructors *)

new_left(arr, k) ==
    [a |-> arr, lo |-> 0, c |-> 0, hi |-> 0, cnt |-> k, touched |-> {}]

new_right(arr, k) ==
    LET i == len(arr)
    IN  [a |-> arr, lo |-> i, c |-> i, hi |-> i, cnt |-> k, touched |-> {}]

new_spanleft(arr, k) ==
    LET i == len(arr)
    IN  [a |-> arr, lo |-> 0, c |-> 0, hi |-> i, cnt |-> k, touched |-> {}]

\* let i = a.len(); .. c: i - 1: on an empty slice the subtraction overflows.
\* A build with overflow checks (the debug profile) panics there; the
\* release profile wraps to usize::MAX.
new_spanright_overflows(arr) == len(arr) = 0

new_spanright(arr, k) ==
    LET i == len(arr)
    IN  [a |-> arr, lo |-> 0, c |-> IF i = 0 THEN USIZE_MAX ELSE i - 1, hi |-> i,
         cnt |-> k, touched |-> {}]

----------------------------------------------------------------------------
(* The view held in the variables, and the step that stores a method's     *)
(* result back into them.                                                  *)

\* The view a method is entered with; its history of touched indices is empty.
self == [a |-> a, lo |-> lo, c |-> c, hi |-> hi, cnt |-> cnt, touched |-> {}]

Entry(i) == [a |-> a, lo |-> lo, c |-> c, hi |-> hi, i |-> i]

Store(s) ==
    /\ a' = s.a
    /\ lo' = s.lo
    /\ c' = s.c
    /\ hi' = s.hi
    /\ cnt' = s.cnt
    /\ touched' = s.touched

Call(name, i, s) ==
    /\ Store(s)
    /\ op' = name
    /\ pre' = Entry(i)

\* Indices a caller may pass: those of the slice.
Indices == 0..(len(a) - 1)

----------------------------------------------------------------------------
(* Spec: a caller that constructs a view over an arbitrary slice and then  *)
(* calls the edit operations in any order, each with its assertions        *)
(* satisfied.  The build is the debug one, where check() at the head of a  *)
(* method makes "the view is a valid c-heap" one of those assertions.      *)

Constructors == {"new_left", "new_right", "new_spanleft", "new_spanright"}

Construct(name, arr, k) ==
    CASE name = "new_left"      -> new_left(arr, k)
      [] name = "new_right"     -> new_right(arr, k)
      [] name = "new_spanleft"  -> new_spanleft(arr, k)
      [] name = "new_spanright" -> new_spanright(arr, k)

\* A view constructed over an arbitrary slice with counter k.
InitView(k) ==
    /\ a \in Arrays
    /\ cnt = k
    /\ debug = TRUE
    /\ op \in Constructors
    /\ op = "new_spanright" => len(a) >= 1
    /\ lo = Construct(op, a, cnt).lo
    /\ c = Construct(op, a, cnt).c
    /\ hi = Construct(op, a, cnt).hi
    /\ pre = Entry(0)
    /\ pc = "ops"
    /\ ix = 0
    /\ m_lo = 0
    /\ m_md = 0
    /\ m_hi = 0
    /\ input = << >>
    /\ driver = "none"
    /\ run = 0
    /\ report = "unset"
    /\ touched = {}

Init == InitView(DummyCounter)

Driver == UNCHANGED <<debug, pc, ix, m_lo, m_md, m_hi, input, driver, run, report>>

Recenter ==
    /\ pc = "ops"
    /\ check_range(self)
    /\ Call("recenter", 0, recenter(self))
    /\ Driver

PopLeft ==
    /\ pc = "ops"
    /\ check(self)
    /\ ~is_empty(self)
    /\ Call("pop_left", 0, pop_left(self))
    /\ Driver

PopRight ==
    /\ pc = "ops"
    /\ check(self)
    /\ ~is_empty(self)
    /\ Call("pop_right", 0, pop_right(self))
    /\ Driver

PushLeft ==
    /\ pc = "ops"
    /\ check(self)
    /\ lo > 0
    /\ debug /\ c = hi => lo = c
    /\ Call("push_left", 0, push_left(self))
    /\ Driver

PushRight ==
    /\ pc = "ops"
    /\ check(self)
    /\ hi < len(a)
    /\ Call("push_right", 0, push_right(self))
    /\ Driver

PushLeftSwap ==
    /\ pc = "ops"
    /\ lo > 0
    /\ \E i \in Indices :
          /\ i < lo \/ i >= hi
          /\ check(swap(self, i, lo - 1))
          /\ Call("push_left_swap", i, push_left_swap(self, i))
    /\ Driver

PushRightSwap ==
    /\ pc = "ops"
    /\ hi < len(a)
    /\ \E i \in Indices :
          /\ i < lo \/ i >= hi
          /\ check(swap(self, i, hi))
          /\ Call("push_right_swap", i, push_right_swap(self, i))
    /\ Driver

PopPush ==
    /\ pc = "ops"
    /\ check(self)
    /\ ~is_empty(self)
    /\ \E i \in Indices :
          /\ i < lo \/ i >= hi
          /\ Call("poppush", i, poppush(self, i))
    /\ Driver

PushPop ==
    /\ pc = "ops"
    /\ check(self)
    /\ \E i \in Indices :
          /\ i < lo \/ i >= hi
          /\ Call("pushpop", i, pushpop(self, i))
    /\ Driver

SlideRight ==
    /\ pc = "ops"
    /\ check(self)
    /\ hi < len(a)
    /\ Call("slide_right", 0, slide_right(self))
    /\ Driver

Next ==
    \/ Recenter
    \/ PopLeft
    \/ PopRight
    \/ PushLeft
    \/ PushRight
    \/ PushLeftSwap
    \/ PushRightSwap
    \/ PopPush
    \/ PushPop
    \/ SlideRight

Spec == Init /\ [][Next]_vars

----------------------------------------------------------------------------
(* SpecSlide: the operations of Spec together with slide_left.             *)

\* The build keeps the closing check(), so a view it rejects ends the run.
SlideLeft ==
    /\ pc = "ops"
    /\ check(self)
    /\ lo > 0
    /\ Call("slide_left", 0, slide_left(self))
    /\ pc' = IF debug /\ ~check(slide_left(self)) THEN "panic" ELSE pc
    /\ UNCHANGED <<debug, ix, m_lo, m_md, m_hi, input, driver, run, report>>

NextSlide == Next \/ SlideLeft

SpecSlide == Init /\ [][NextSlide]_vars

----------------------------------------------------------------------------
(* SpecRecenter: recenter called after a bulk change of lo, c and hi, that *)
(* is on arbitrary contents and any root index inside the range.           *)

SortArrays == UNION {[0..(n - 1) -> Vals] : n \in 0..MaxSortLen}

InitRecenter ==
    /\ a \in SortArrays
    /\ hi \in 0..len(a)
    /\ c \in 0..hi
    /\ lo \in 0..c
    /\ lo = hi \/ c < hi
    /\ cnt = DummyCounter
    /\ debug = TRUE
    /\ op = "bulk"
    /\ pre = Entry(0)
    /\ pc = "ops"
    /\ ix = 0
    /\ m_lo = 0
    /\ m_md = 0
    /\ m_hi = 0
    /\ input = << >>
    /\ driver = "none"
    /\ run = 0
    /\ report = "unset"
    /\ touched = {}

SpecRecenter == InitRecenter /\ [][Recenter]_vars

----------------------------------------------------------------------------
(* SpecSort: one run of heap_sort_left, heap_sort_right or merge_sort with *)
(* a RealCounter, in either build, followed by main's is_sorted report     *)
(* when the whole slice was sorted.  The heap sorts take one step per call *)
(* on the view; merge_sort is one step.                                    *)

SortDrivers == {"heap_sort_left", "heap_sort_right", "merge_sort"}

\* merge_sort is given every range of the slice, the elements outside the
\* range all equal; the heap sorts take the whole slice.
InitSort ==
    /\ driver \in SortDrivers
    /\ a \in SortArrays
    /\ m_lo \in 0..len(a)
    /\ m_hi \in m_lo..len(a)
    /\ IF driver = "merge_sort"
       THEN \E fill \in {0, MaxVal} :
                \A k \in DOMAIN a : (k < m_lo \/ k >= m_hi) => a[k] = fill
       ELSE m_lo = 0 /\ m_hi = len(a)
    /\ driver = "heap_sort_left" => len(a) >= 1
    /\ input = a
    /\ debug \in BOOLEAN
    /\ cnt = RealCounter
    /\ lo = 0
    /\ c = 0
    /\ hi = 0
    /\ op = "main"
    /\ pre = Entry(0)
    /\ pc = "start"
    /\ ix = 0
    /\ m_md = 0
    /\ run = 0
    /\ report = "unset"
    /\ touched = {}

Sort_args == UNCHANGED <<debug, ix, m_lo, m_md, m_hi, input, driver, run>>

HeapSortNew ==
    /\ pc = "start"
    /\ driver \in {"heap_sort_left", "heap_sort_right"}
    /\ LET name == IF driver = "heap_sort_left" THEN "new_spanright" ELSE "new_spanleft"
       IN  Call(name, 0, Construct(name, a, cnt))
    /\ pc' = "recenter"
    /\ UNCHANGED report
    /\ Sort_args

HeapSortRecenter ==
    /\ pc = "recenter"
    /\ Call("recenter", 0, recenter(self))
    /\ pc' = IF debug /\ ~check_range(self) THEN "panic" ELSE "pop"
    /\ UNCHANGED report
    /\ Sort_args

\* while !c.is_empty() { c.pop_left(); }   (pop_right in heap_sort_right)
HeapSortPop ==
    /\ pc = "pop"
    /\ ~is_empty(self)
    /\ IF debug /\ ~check(self)
       THEN pc' = "panic" /\ UNCHANGED <<a, lo, c, hi, cnt, touched, op, pre>>
       ELSE /\ pc' = "pop"
            /\ IF driver = "heap_sort_left"
               THEN Call("pop_left", 0, pop_left(self))
               ELSE Call("pop_right", 0, pop_right(self))
    /\ UNCHANGED report
    /\ Sort_args

\* The loop is left; heap_sort_right reverses the slice.
HeapSortReturn ==
    /\ pc = "pop"
    /\ is_empty(self)
    /\ a' = IF driver = "heap_sort_right" THEN reverse(a) ELSE a
    /\ op' = "return"
    /\ pc' = "report"
    /\ UNCHANGED <<lo, c, hi, cnt, touched, pre, report>>
    /\ Sort_args

\* Op::run calls merge_sort(n, 0, n_len); main reports on that call only.
MergeSort ==
    /\ pc = "start"
    /\ driver = "merge_sort"
    /\ LET r == merge_sort(a, m_lo, m_hi, cnt)
       IN  /\ a' = r.a
           /\ cnt' = r.cnt
           /\ pc' = IF r.panic THEN "panic"
                    ELSE IF m_lo = 0 /\ m_hi = len(a) THEN "report"
                    ELSE "done"
    /\ op' = "return"
    /\ UNCHANGED <<lo, c, hi, pre, report, touched>>
    /\ Sort_args

\* out["is_sorted"] = is_sorted(&n, 0, n_len)
MainReport ==
    /\ pc = "report"
    /\ IF is_sorted_panics(a, 0, len(a))
       THEN pc' = "panic" /\ UNCHANGED report
       ELSE /\ pc' = "exit"
            /\ report' = IF is_sorted(a, 0, len(a)) THEN "true" ELSE "false"
    /\ UNCHANGED <<a, lo, c, hi, cnt, touched, op, pre>>
    /\ Sort_args

NextSort ==
    \/ HeapSortNew
    \/ HeapSortRecenter
    \/ HeapSortPop
    \/ HeapSortReturn
    \/ MergeSort
    \/ MainReport

SpecSort == InitSort /\ [][NextSort]_vars

----------------------------------------------------------------------------
(* SpecRun: one run of running_sort_left or running_sort_right, one pass   *)
(* of its loop per step.  A window wider than the slice behaves as one of  *)
(* len(a) + 1.                                                             *)

RunArrays == UNION {[0..(n - 1) -> Vals] : n \in 0..MaxRunLen}

RunDrivers == {"running_sort_left", "running_sort_right"}

InitRun ==
    /\ driver \in RunDrivers
    /\ a \in RunArrays
    /\ run \in 0..(len(a) + 1)
    /\ input = a
    /\ debug = TRUE
    /\ cnt = RealCounter
    /\ lo = 0
    /\ c = 0
    /\ hi = 0
    /\ op = "main"
    /\ pre = Entry(0)
    /\ pc = "start"
    /\ ix = 0
    /\ m_lo = 0
    /\ m_md = 0
    /\ m_hi = 0
    /\ report = "unset"
    /\ touched = {}

Run_args == UNCHANGED <<debug, ix, m_lo, m_md, m_hi, input, driver, run, report>>

\* if a_len == 0 { return; }  let mut c = Cheap::new_left(a, cnt);
RunningSortNew ==
    /\ pc = "start"
    /\ IF len(a) = 0
       THEN pc' = "done" /\ op' = "return" /\ UNCHANGED <<a, lo, c, hi, cnt, touched, pre>>
       ELSE /\ pc' = "loop"
            /\ LET name == IF driver = "running_sort_left" THEN "new_left" ELSE "new_right"
               IN  Call(name, 0, Construct(name, a, cnt))
    /\ Run_args

\* while c.lo < a_len { .. }   (while c.hi > 0 in running_sort_right)
RunningSortIter ==
    /\ pc = "loop"
    /\ IF driver = "running_sort_left" THEN lo < len(a) ELSE hi > 0
    /\ LET r == IF driver = "running_sort_left"
                THEN running_sort_left_iter(self, run)
                ELSE running_sort_right_iter(self, run)
       IN  /\ Call(driver, 0, r.ch)
           /\ pc' = IF r.panic THEN "panic" ELSE "loop"
    /\ Run_args

RunningSortReturn ==
    /\ pc = "loop"
    /\ ~(IF driver = "running_sort_left" THEN lo < len(a) ELSE hi > 0)
    /\ pc' = "done"
    /\ op' = "return"
    /\ UNCHANGED <<a, lo, c, hi, cnt, touched, pre>>
    /\ Run_args

NextRun == RunningSortNew \/ RunningSortIter \/ RunningSortReturn

SpecRun == InitRun /\ [][NextRun]_vars

----------------------------------------------------------------------------
(* SpecNew: one constructor called on a slice of any length, in either     *)
(* build.                                                                  *)

InitNew ==
    /\ a \in Arrays
    /\ debug \in BOOLEAN
    /\ cnt \in {DummyCounter, RealCounter}
    /\ lo = 0
    /\ c = 0
    /\ hi = 0
    /\ op = "main"
    /\ pre = Entry(0)
    /\ pc = "start"
    /\ ix = 0
    /\ m_lo = 0
    /\ m_md = 0
    /\ m_hi = 0
    /\ input = a
    /\ driver = "none"
    /\ run = 0
    /\ report = "unset"
    /\ touched = {}

New ==
    /\ pc = "start"
    /\ \E name \in Constructors :
          IF name = "new_spanright" /\ debug /\ new_spanright_overflows(a)
          THEN /\ pc' = "panic"
               /\ op' = name
               /\ UNCHANGED <<a, lo, c, hi, cnt, touched, pre>>
          ELSE /\ pc' = "ops"
               /\ Call(name, 0, Construct(name, a, cnt))
    /\ UNCHANGED <<debug, ix, m_lo, m_md, m_hi, input, driver, run, report>>

SpecNew == InitNew /\ [][New]_vars

----------------------------------------------------------------------------
(* SpecFatal: the caller of Spec, who may also make a call whose           *)
(* precondition does not hold; the run ends at a panic.                    *)

Misuse(name, i, r) ==
    /\ Call(name, i, r.ch)
    /\ pc' = IF r.panic THEN "panic" ELSE pc
    /\ UNCHANGED <<debug, ix, m_lo, m_md, m_hi, input, driver, run, report>>

PopLeftOnEmpty ==
    /\ pc = "ops"
    /\ is_empty(self)
    /\ Misuse("pop_left", 0, pop_left_call(self))

PopRightOnEmpty ==
    /\ pc = "ops"
    /\ is_empty(self)
    /\ Misuse("pop_right", 0, pop_right_call(self))

PushLeftAtStart ==
    /\ pc = "ops"
    /\ lo = 0
    /\ Misuse("push_left", 0, push_left_call(self))

PushRightAtEnd ==
    /\ pc = "ops"
    /\ hi = len(a)
    /\ Misuse("push_right", 0, push_right_call(self))

PopPushOnEmpty ==
    /\ pc = "ops"
    /\ is_empty(self)
    /\ \E i \in Indices : Misuse("poppush", i, poppush_call(self, i))

PopPushInside ==
    /\ pc = "ops"
    /\ \E i \in Indices :
          /\ lo <= i /\ i < hi
          /\ Misuse("poppush", i, poppush_call(self, i))

NextFatal ==
    \/ Next
    \/ PopLeftOnEmpty
    \/ PopRightOnEmpty
    \/ PushLeftAtStart
    \/ PushRightAtEnd
    \/ PopPushOnEmpty
    \/ PopPushInside

SpecFatal == Init /\ [][NextFatal]_vars

----------------------------------------------------------------------------
(* SpecCount: the caller of SpecSlide with a RealCounter, who stops        *)
(* calling once the counter has tallied MaxCount events.                   *)

InitCount == InitView(RealCounter)

NextCount ==
    /\ cnt.compares + cnt.swaps < MaxCount
    /\ NextSlide

SpecCount == InitCount /\ [][NextCount]_vars

----------------------------------------------------------------------------
(* SpecMerge: one call merge(a, m_lo, m_md, m_hi) on two sorted runs, in   *)
(* either build, one loop iteration per step.                              *)

MergeArrays == UNION {[0..(n - 1) -> Vals] : n \in 0..MaxMergeLen}

InitMerge ==
    /\ a \in MergeArrays
    /\ m_hi \in 0..len(a)
    /\ m_md \in 0..m_hi
    /\ m_lo \in 0..m_md
    /\ is_sorted(a, m_lo, m_md)
    /\ is_sorted(a, m_md, m_hi)
    /\ debug \in BOOLEAN
    /\ cnt = DummyCounter
    /\ lo = m_md
    /\ c = m_md
    /\ hi = m_md
    /\ ix = m_lo
    /\ op = "merge"
    /\ pre = Entry(0)
    /\ pc = "enter"
    /\ input = a
    /\ driver = "merge"
    /\ run = 0
    /\ report = "unset"
    /\ touched = {}

Call_args == UNCHANGED <<debug, m_lo, m_md, m_hi, input, driver, run, report>>

\* The two debug_assert!(is_sorted(..)) ahead of the loop.
MergeEnter ==
    /\ pc = "enter"
    /\ pc' = IF debug /\ (is_sorted_panics(a, m_lo, m_md) \/ is_sorted_panics(a, m_md, m_hi))
             THEN "panic"
             ELSE "merge"
    /\ UNCHANGED <<a, lo, c, hi, cnt, touched, op, pre, ix>>
    /\ Call_args

\* for ix in lo..hi { .. }
MergeIter ==
    /\ pc = "merge"
    /\ ix < m_hi
    /\ LET r == merge_iter(self, ix, m_hi)
       IN  /\ Call(r.call, ix, r.ch)
           /\ pc' = r.pc
           /\ ix' = IF r.pc = "merge" THEN ix + 1 ELSE ix
    /\ Call_args

\* The range is exhausted; the closing debug_assert!(is_sorted(a, lo, hi)).
MergeReturn ==
    /\ pc = "merge"
    /\ ix >= m_hi
    /\ pc' = IF debug /\ is_sorted_panics(a, m_lo, m_hi) THEN "panic" ELSE "done"
    /\ op' = "return"
    /\ UNCHANGED <<a, lo, c, hi, cnt, touched, pre, ix>>
    /\ Call_args

NextMerge == MergeEnter \/ MergeIter \/ MergeReturn

SpecMerge == InitMerge /\ [][NextMerge]_vars

----------------------------------------------------------------------------
(* SpecSift: one call of sift_out(ii), sift_in(i) or recenter() on a        *)
(* well-shaped view over arbitrary contents, one loop iteration per step.   *)
(* ix is the current node n, m_lo the index of recenter's running `for`,    *)
(* m_md the node the call started at, and pc the loop control is in:        *)
(* "sift_out" / "sift_in" for a direct call, "lo_loop" / "hi_loop" at the   *)
(* head of recenter's two loops and "lo_sift" / "hi_sift" inside the        *)
(* sift_out they call.                                                      *)

SiftDrivers == {"sift_out", "sift_in", "recenter"}

InitSift ==
    /\ driver \in SiftDrivers
    /\ a \in Arrays
    /\ hi \in 0..len(a)
    /\ c \in 0..hi
    /\ lo \in 0..c
    /\ lo = hi \/ c < hi
    /\ IF driver = "recenter"
       THEN /\ ix = 0
            /\ m_lo = get_recenter_limit(lo, c)
            /\ pc = "lo_loop"
       ELSE /\ ix \in lo..(hi - 1)
            /\ m_lo = 0
            /\ pc = driver
    /\ m_md = ix
    /\ m_hi = 0
    /\ cnt = RealCounter
    /\ debug = TRUE
    /\ op = "call"
    /\ pre = Entry(ix)
    /\ input = a
    /\ run = 0
    /\ report = "unset"
    /\ touched = {}

Sift_args == UNCHANGED <<debug, m_md, m_hi, input, driver, report>>

\* while vio_found { .. }
SiftOutIter ==
    /\ pc \in {"sift_out", "lo_sift", "hi_sift"}
    /\ LET r == sift_out_iter(self, ix)
       IN  /\ Call("sift_out", ix, r.ch)
           /\ ix' = r.n
           /\ pc' = IF r.vio_found THEN pc
                    ELSE IF pc = "lo_sift" THEN "lo_loop"
                    ELSE IF pc = "hi_sift" THEN "hi_loop"
                    ELSE "done"
    /\ run' = run + 1
    /\ UNCHANGED m_lo
    /\ Sift_args

\* while n != c { .. }
SiftInIter ==
    /\ pc = "sift_in"
    /\ IF ix = c
       THEN /\ pc' = "done"
            /\ op' = "return"
            /\ UNCHANGED <<a, lo, c, hi, cnt, touched, pre, ix, run>>
       ELSE LET r == sift_in_iter(self, ix)
            IN  /\ Call("sift_in", ix, r.ch)
                /\ ix' = r.n
                /\ pc' = IF r.again THEN pc ELSE "done"
                /\ run' = run + 1
    /\ UNCHANGED m_lo
    /\ Sift_args

\* for i in get_recenter_limit(lo, c)..c { self.sift_out(i); }
RecenterLo ==
    /\ pc = "lo_loop"
    /\ IF m_lo < c
       THEN /\ ix' = m_lo
            /\ m_lo' = m_lo + 1
            /\ pc' = "lo_sift"
       ELSE /\ ix' = ix
            /\ m_lo' = get_recenter_limit(hi, c) - 1
            /\ pc' = "hi_loop"
    /\ op' = "recenter"
    /\ run' = 0
    /\ UNCHANGED <<a, lo, c, hi, cnt, touched, pre>>
    /\ Sift_args

\* for i in (c..get_recenter_limit(hi, c)).rev() { self.sift_out(i); }
RecenterHi ==
    /\ pc = "hi_loop"
    /\ IF m_lo >= c
       THEN /\ ix' = m_lo
            /\ m_lo' = m_lo - 1
            /\ pc' = "hi_sift"
       ELSE /\ ix' = ix
            /\ m_lo' = m_lo
            /\ pc' = "done"
    /\ op' = "recenter"
    /\ run' = 0
    /\ UNCHANGED <<a, lo, c, hi, cnt, touched, pre>>
    /\ Sift_args

NextSift == SiftOutIter \/ SiftInIter \/ RecenterLo \/ RecenterHi

SpecSift == InitSift /\ [][NextSift]_vars

----------------------------------------------------------------------------
(* SpecIndex: the index arithmetic on its own.  For a node ix and a center  *)
(* c, both indices of a slice, the two children are computed (m_lo the left *)
(* one, m_hi the right one) and then the parent (m_md) of a child that is   *)
(* not the sentinel (run).                                                  *)

InitIndex ==
    /\ ix \in 0..MaxIndex
    /\ c \in 0..MaxIndex
    /\ pc = "index"
    /\ op = "none"
    /\ m_lo = 0
    /\ m_hi = 0
    /\ m_md = 0
    /\ run = 0
    /\ a = << >>
    /\ lo = 0
    /\ hi = 0
    /\ cnt = DummyCounter
    /\ debug \in BOOLEAN
    /\ pre = Entry(ix)
    /\ input = << >>
    /\ driver = "none"
    /\ report = "unset"
    /\ touched = {}

Index_args == UNCHANGED <<a, lo, c, hi, cnt, touched, debug, pre, ix, input, driver, report>>

GetChildren ==
    /\ pc = "index"
    /\ m_lo' = get_left_child(ix, c)
    /\ m_hi' = get_right_child(ix, c)
    /\ pc' = "children"
    /\ op' = "get_children"
    /\ UNCHANGED <<m_md, run>>
    /\ Index_args

\* debug_assert!(x != c) stops the debug build.
GetParent ==
    /\ pc = "children"
    /\ \E ch \in {m_lo, m_hi} :
           /\ ch # USIZE_MAX
           /\ run' = ch
           /\ IF debug /\ ch = c
              THEN pc' = "panic" /\ m_md' = m_md
              ELSE pc' = "parent" /\ m_md' = get_parent(ch, c)
    /\ op' = "get_parent"
    /\ UNCHANGED <<m_lo, m_hi>>
    /\ Index_args

NextIndex == GetChildren \/ GetParent

SpecIndex == InitIndex /\ [][NextIndex]_vars

----------------------------------------------------------------------------
(* Vocabulary of the properties *)

\* The multiset of arr[l..h), as the number of occurrences of each value.
BagOf(arr, l, h) ==
    [v \in Vals |-> Cardinality({k \in l..(h - 1) : arr[k] = v})]

BagAdd(b, v) == [b EXCEPT ![v] = @ + 1]

BagDel(b, v) == [b EXCEPT ![v] = @ - 1]

\* The least of arr[l..h), for l < h.
MinOf(arr, l, h) ==
    CHOOSE m \in {arr[k] : k \in l..(h - 1)} :
        \A k \in l..(h - 1) : m <= arr[k]

\* Every node of [l, h) but the root is no better than its parent.
HeapOrdered(arr, l, cc, h) ==
    \A i \in l..(h - 1) : i # cc => arr[get_parent(i, cc)] <= arr[i]

\* The root is inside a non-empty range; an empty range has l = cc = h.
RootPlaced(l, cc, h) ==
    \/ l < h /\ l <= cc /\ cc < h
    \/ l = h /\ l = cc

\* A span constructor has run and recenter has not yet established the heap.
Unbuilt == op \in {"new_spanleft", "new_spanright"}

----------------------------------------------------------------------------
(* Properties of the edit operations, under Spec *)

\* C1: from an empty view, or a span view once recentered, every sequence
\* of edit operations leaves each node of [lo, hi) other than c no better
\* than its parent: a[parent(i, c)] <= a[i].
C1_HeapInvariant == ~Unbuilt => HeapOrdered(a, lo, c, hi)

\* A two-sided heap with a grandchild, produced by an edit operation.
C1_Witness ==
    /\ op = "push_left_swap"
    /\ hi - lo >= 4
    /\ lo < c
    /\ c + 1 < hi
    /\ \E i \in lo..(hi - 1) : a[i] # a[c]

\* C2: in every such state a non-empty heap has its minimum at the root.
C2_RootMinimal ==
    (~Unbuilt /\ lo < hi) => \A i \in lo..(hi - 1) : a[c] <= a[i]

\* A heap of three or more whose root is strictly the least, after a pop
\* that had to rebuild around a new root.
C2_Witness ==
    /\ op = "pop_right"
    /\ pre.c = pre.hi - 1
    /\ hi - lo >= 3
    /\ \A i \in lo..(hi - 1) : i # c => a[c] < a[i]

\* C3: the indices are well-shaped: 0 <= lo <= hi <= len(a); the root of a
\* non-empty range is inside it; an empty range has lo = c = hi.
C3_Shape ==
    /\ 0 <= lo
    /\ lo <= hi
    /\ hi <= len(a)
    /\ lo < hi => (lo <= c /\ c < hi)
    /\ lo = hi => (lo = c /\ c = hi)

\* A view emptied by a pop in the middle of the array.
C3_Witness ==
    /\ op = "pop_left"
    /\ lo = hi
    /\ 0 < lo
    /\ hi < len(a)

\* C5: pop_left leaves the old minimum at the old lo, advances lo alone, and
\* what remains in [lo, hi) is the old heap less that minimum, heap-ordered
\* and with the root placed.
C5_PopLeft ==
    op = "pop_left" =>
        LET m == MinOf(pre.a, pre.lo, pre.hi)
        IN  /\ a[pre.lo] = m
            /\ lo = pre.lo + 1
            /\ hi = pre.hi
            /\ BagOf(a, lo, hi) = BagDel(BagOf(pre.a, pre.lo, pre.hi), m)
            /\ HeapOrdered(a, lo, c, hi)
            /\ RootPlaced(lo, c, hi)

\* pop_left with the root away from lo, where the swapped-in leaf sinks.
C5_Witness ==
    /\ op = "pop_left"
    /\ pre.lo < pre.c
    /\ hi - lo >= 3
    /\ a[c] # pre.a[pre.lo]

\* C6: pop_right leaves the old minimum at the old hi - 1, lowers hi alone,
\* and what remains in [lo, hi) is the old heap less that minimum,
\* heap-ordered and with the root placed.
C6_PopRight ==
    op = "pop_right" =>
        LET m == MinOf(pre.a, pre.lo, pre.hi)
        IN  /\ a[pre.hi - 1] = m
            /\ hi = pre.hi - 1
            /\ lo = pre.lo
            /\ BagOf(a, lo, hi) = BagDel(BagOf(pre.a, pre.lo, pre.hi), m)
            /\ HeapOrdered(a, lo, c, hi)
            /\ RootPlaced(lo, c, hi)

\* pop_right with the root away from hi - 1, where the swapped-in leaf sinks.
C6_Witness ==
    /\ op = "pop_right"
    /\ pre.c < pre.hi - 1
    /\ hi - lo >= 3
    /\ a[c] # pre.a[pre.hi - 1]

C8_PopPush ==
    op = "poppush" =>
        /\ lo = pre.lo /\ c = pre.c /\ hi = pre.hi
        /\ a[pre.i] = pre.a[pre.c]
        /\ a[pre.i] = MinOf(pre.a, pre.lo, pre.hi)
        /\ BagOf(a, lo, hi) =
              BagAdd(BagDel(BagOf(pre.a, pre.lo, pre.hi), pre.a[pre.c]),
                     pre.a[pre.i])
        /\ HeapOrdered(a, lo, c, hi)

\* poppush of a value that is not the new minimum, so it sinks.
C8_Witness ==
    /\ op = "poppush"
    /\ hi - lo >= 3
    /\ a[c] # pre.a[pre.i]
    /\ pre.a[pre.i] # pre.a[pre.c]

\* C9: pushpop(i), i outside the range, keeps (lo, c, hi); a[i] becomes the
\* least of the old a[i] and the old heap; [lo, hi) holds the other values,
\* heap-ordered; an empty heap, or old a[i] <= old a[c], changes nothing.
C9_PushPop ==
    op = "pushpop" =>
        /\ lo = pre.lo /\ c = pre.c /\ hi = pre.hi
        /\ \A k \in pre.lo..(pre.hi - 1) : a[pre.i] <= pre.a[k]
        /\ a[pre.i] <= pre.a[pre.i]
        /\ BagAdd(BagOf(a, lo, hi), a[pre.i]) =
              BagAdd(BagOf(pre.a, pre.lo, pre.hi), pre.a[pre.i])
        /\ HeapOrdered(a, lo, c, hi)
        /\ (pre.lo = pre.hi \/ pre.a[pre.i] <= pre.a[pre.c]) => a = pre.a

\* pushpop of a value worse than the root: the root comes out.
C9_Witness ==
    /\ op = "pushpop"
    /\ hi - lo >= 3
    /\ a[pre.i] # pre.a[pre.i]
    /\ a[c] # pre.a[pre.i]

\* C10: slide_right raises lo and hi by one; on a non-empty heap the old
\* a[hi] ends at the old lo and the new range holds the old heap elements,
\* heap-ordered with the root inside; on an empty view c moves too and the
\* array is unchanged.
C10_SlideRight ==
    op = "slide_right" =>
        /\ lo = pre.lo + 1
        /\ hi = pre.hi + 1
        /\ pre.lo < pre.hi =>
              /\ a[pre.lo] = pre.a[pre.hi]
              /\ BagOf(a, lo, hi) = BagOf(pre.a, pre.lo, pre.hi)
              /\ lo <= c /\ c < hi
              /\ HeapOrdered(a, lo, c, hi)
        /\ pre.lo = pre.hi => (c = pre.c + 1 /\ lo = c /\ c = hi /\ a = pre.a)

\* The incremental path: the root is not at lo and the transferred leaf
\* rises from the new right end.
C10_Witness ==
    /\ op = "slide_right"
    /\ pre.lo < pre.c
    /\ hi - lo >= 3
    /\ a[pre.hi] # pre.a[pre.lo]

\* The recenter path: the root was at lo.
C10_WitnessRecenter ==
    /\ op = "slide_right"
    /\ pre.lo = pre.c
    /\ hi - lo >= 3
    /\ c = pre.hi

----------------------------------------------------------------------------
(* Properties of merge, under SpecMerge *)

\* What merge is to establish on return.
MergePost ==
    /\ \A i \in m_lo..(m_hi - 1) : \A j \in i..(m_hi - 1) : a[i] <= a[j]
    /\ BagOf(a, m_lo, m_hi) = BagOf(input, m_lo, m_hi)
    /\ \A k \in DOMAIN a : (k < m_lo \/ k >= m_hi) => a[k] = input[k]

\* C11: slide_left lowers lo and hi by one; on a valid non-empty heap of any
\* size the old a[lo - 1] ends at the old hi - 1, the new range holds the old
\* heap elements, and the result is a valid non-empty c-heap with
\* lo <= c < hi; on an empty view c goes down by one too.
C11_PreValid ==
    /\ RootPlaced(pre.lo, pre.c, pre.hi)
    /\ HeapOrdered(pre.a, pre.lo, pre.c, pre.hi)

C11_SlideLeft ==
    op = "slide_left" /\ C11_PreValid =>
        /\ lo = pre.lo - 1
        /\ hi = pre.hi - 1
        /\ IF pre.lo = pre.hi
           THEN c = pre.c - 1 /\ a = pre.a
           ELSE /\ a[pre.hi - 1] = pre.a[pre.lo - 1]
                /\ BagOf(a, lo, hi) = BagOf(pre.a, pre.lo, pre.hi)
                /\ lo <= c /\ c < hi
                /\ HeapOrdered(a, lo, c, hi)

\* What slide_left does keep: the contract above on every heap of two or
\* more elements and on the empty view.
C11_SlideLeftLarger ==
    op = "slide_left" /\ C11_PreValid /\ pre.hi - pre.lo # 1 => C11_SlideLeft

C11_WitnessLarger ==
    /\ op = "slide_left"
    /\ C11_PreValid
    /\ pre.hi - pre.lo >= 2
    /\ pre.c = pre.hi - 1

\* C12: on arbitrary contents and any lo <= c < hi <= len(a), recenter leaves
\* lo, c and hi unchanged, establishes the heap invariant over [lo, hi) with
\* the best value at c, permutes only the elements inside [lo, hi) and
\* leaves every element outside unchanged.
C12_Recenter ==
    op = "recenter" /\ pre.lo <= pre.c /\ pre.c < pre.hi /\ pre.hi <= len(pre.a) =>
        /\ lo = pre.lo /\ c = pre.c /\ hi = pre.hi
        /\ HeapOrdered(a, lo, c, hi)
        /\ a[c] = MinOf(a, lo, hi)
        /\ BagOf(a, lo, hi) = BagOf(pre.a, pre.lo, pre.hi)
        /\ DOMAIN a = DOMAIN pre.a
        /\ \A k \in DOMAIN a : (k < lo \/ k >= hi) => a[k] = pre.a[k]

C12_Witness ==
    /\ op = "recenter"
    /\ pre.lo > 0
    /\ pre.c - pre.lo >= 2
    /\ pre.hi - pre.c >= 3
    /\ ~HeapOrdered(pre.a, pre.lo, pre.c, pre.hi)
    /\ pre.a[pre.c] # MinOf(pre.a, pre.lo, pre.hi)
    /\ a # pre.a

\* C13: on every array of length >= 1, heap_sort_left and heap_sort_right
\* terminate, and they leave the array non-decreasing and a permutation of
\* the input.  Termination is stated by its variant: no call of the run
\* panics, and every pass of the pop loop, which is left when the heap is
\* empty, makes the heap one element smaller.
HeapSorts == {"heap_sort_left", "heap_sort_right"}

SortedPermutation ==
    /\ DOMAIN a = DOMAIN input
    /\ is_sorted(a, 0, len(a))
    /\ BagOf(a, 0, len(a)) = BagOf(input, 0, len(input))

C13_HeapSort ==
    driver \in HeapSorts /\ len(input) >= 1 =>
        /\ pc # "panic"
        /\ pc = "pop" => hi - lo >= 0 /\ hi - lo <= len(input)
        /\ pc = "pop" /\ op \in {"pop_left", "pop_right"} =>
               hi - lo = (pre.hi - pre.lo) - 1
        /\ pc \in {"report", "exit"} => SortedPermutation

C13_Witness ==
    /\ driver = "heap_sort_right"
    /\ pc = "report"
    /\ len(input) >= 5
    /\ ~is_sorted(input, 0, len(input))
    /\ ~is_sorted(reverse(input), 0, len(input))
    /\ SortedPermutation

C13_WitnessLeft ==
    /\ driver = "heap_sort_left"
    /\ pc = "report"
    /\ len(input) >= 5
    /\ ~is_sorted(input, 0, len(input))
    /\ SortedPermutation

\* C14: for every array and range 0 <= lo < hi <= len(a), merge_sort(a, lo,
\* hi) terminates (no panic in either build) with a[lo..hi) non-decreasing
\* and a permutation of its original contents; ranges of up to 4 elements
\* go to small_sort, larger ones are split at (lo + hi) / 2 and merged.
C14_MergeSort ==
    driver = "merge_sort" /\ m_lo < m_hi =>
        /\ pc # "panic"
        /\ pc # "start" =>
              /\ DOMAIN a = DOMAIN input
              /\ is_sorted(a, m_lo, m_hi)
              /\ BagOf(a, m_lo, m_hi) = BagOf(input, m_lo, m_hi)

C14_Witness ==
    /\ driver = "merge_sort"
    /\ pc = "done"
    /\ m_lo > 0
    /\ m_hi - m_lo >= 5
    /\ ~is_sorted(input, m_lo, (m_lo + m_hi) \div 2)
    /\ ~is_sorted(input, (m_lo + m_hi) \div 2, m_hi)
    /\ input[m_hi - 1] < input[m_lo]
    /\ is_sorted(a, m_lo, m_hi)

\* C15: after running_sort_left with window run >= 1 on an input of length
\* n, output[k] = min(input[k : min(k + run, n)]) for every k < n - run + 1.
C15_WindowMin ==
    driver = "running_sort_left" /\ pc = "done" /\ run >= 1 =>
        \A k \in 0..(len(input) - run) :
            a[k] = MinOf(input, k, IF k + run < len(input) THEN k + run ELSE len(input))

\* C15, as the code has it: for every k < n - run + 1, output[k] is the
\* least of the first k + run input elements not emitted before, that is
\* of input[0 : k + run] with output[0 : k] taken out.
Remaining(k) ==
    [v \in Vals |-> BagOf(input, 0, k + run)[v] - BagOf(a, 0, k)[v]]

C15_RunningSortLeft ==
    driver = "running_sort_left" /\ run >= 1 =>
        /\ pc # "panic"
        /\ pc = "done" =>
              /\ DOMAIN a = DOMAIN input
              /\ \A k \in 0..(len(input) - run) :
                    /\ \A v \in Vals : Remaining(k)[v] >= 0
                    /\ Remaining(k)[a[k]] > 0
                    /\ \A v \in Vals : Remaining(k)[v] > 0 => a[k] <= v

C15_Witness ==
    /\ driver = "running_sort_left"
    /\ pc = "done"
    /\ run >= 2
    /\ len(input) >= run + 2
    /\ \E k \in 1..(len(input) - run) : a[k] # MinOf(input, k, k + run)

\* The candidates one iteration of merge had to choose from, in the order
\* it looked at them, and the one its branch shows it chose.
Selected ==
    op \in {"continue", "poppush", "push_right_swap", "pop_left", "slide_right"}

Chosen ==
    IF op = "continue" THEN "Lo"
    ELSE IF op \in {"poppush", "pop_left"} THEN "Md"
    ELSE "Hi"

Offered ==
    (IF pre.i < pre.lo THEN <<MC("Lo", pre.a[pre.i])>> ELSE << >>)
    \o (IF pre.lo < pre.hi THEN <<MC("Md", pre.a[pre.c])>> ELSE << >>)
    \o (IF pre.hi < m_hi THEN <<MC("Hi", pre.a[pre.hi])>> ELSE << >>)

Least(k) == \A j \in 1..Len(Offered) : Offered[k].val <= Offered[j].val

\* C16: when the candidates it compares have equal values, merge's selection
\* takes the first in the order Lo, Md, Hi: an equal Lo is preferred over Md
\* and Hi, an equal Md over Hi.
C16_FirstOnTie ==
    Selected =>
        \E k \in 1..Len(Offered) :
            /\ Least(k)
            /\ \A j \in 1..(k - 1) : ~Least(j)
            /\ Chosen = Offered[k].tag

\* C16, as the code has it: on equal values the later candidate is taken:
\* an equal Hi is preferred over Md and Lo, an equal Md over Lo.
C16_LastOnTie ==
    Selected =>
        \E k \in 1..Len(Offered) :
            /\ Least(k)
            /\ \A j \in (k + 1)..Len(Offered) : ~Least(j)
            /\ Chosen = Offered[k].tag

C16_Witness ==
    /\ Selected
    /\ Len(Offered) = 3
    /\ Least(1) /\ Least(2) /\ Least(3)
    /\ Chosen = "Hi"

\* C17: is_sorted(a, lo, hi) returns true for every empty range
\* lo = hi <= len(a), the empty array included; so the merge driver on an
\* array of size 0 completes with zero compares, zero swaps and is_sorted
\* reported as true.
C17_EmptyRange ==
    /\ \A l \in 0..len(a) : ~is_sorted_panics(a, l, l) /\ is_sorted(a, l, l)
    /\ driver = "merge_sort" /\ len(input) = 0 =>
          /\ pc # "panic"
          /\ pc = "exit" => cnt.compares = 0 /\ cnt.swaps = 0 /\ report = "true"

\* What holds of is_sorted on empty ranges: true whenever the range starts
\* inside the slice; the size-0 merge driver does no compare and no swap.
C17_EmptyRangeInside ==
    /\ \A l \in 0..(len(a) - 1) : ~is_sorted_panics(a, l, l) /\ is_sorted(a, l, l)
    /\ driver = "merge_sort" /\ len(input) = 0 => cnt.compares = 0 /\ cnt.swaps = 0

C17_WitnessPanic ==
    /\ driver = "merge_sort"
    /\ len(input) = 0
    /\ ~debug
    /\ pc = "panic"

\* C18: each of the four constructors, for every array length including 0,
\* yields indices with 0 <= lo <= c <= hi <= len(a) when non-empty and
\* lo = c = hi when empty, computed without integer underflow.
C18_Constructors ==
    op \in Constructors /\ pc # "start" =>
        /\ pc # "panic"
        /\ 0 <= lo /\ lo <= c /\ c <= hi /\ hi <= len(a)
        /\ lo = hi => lo = c

\* What the constructors do keep: the shape on every non-empty slice, and
\* on the empty one for all but span-right.
C18_ConstructorsElsewhere ==
    op \in Constructors /\ pc # "start" /\ ~(op = "new_spanright" /\ len(a) = 0) =>
        C18_Constructors

C18_WitnessWrap ==
    /\ op = "new_spanright"
    /\ pc = "ops"
    /\ len(a) = 0
    /\ c = USIZE_MAX

\* C19: a precondition violation is fatal and leaves no partial update:
\* pop_left or pop_right on an empty view, push_left with lo = 0, push_right
\* with hi = len(a), and poppush on an empty view or with lo <= i < hi each
\* abort before any array element or any of lo, c, hi has been modified.
C19_Violation ==
    \/ op \in {"pop_left", "pop_right"} /\ pre.lo = pre.hi
    \/ op = "push_left" /\ pre.lo = 0
    \/ op = "push_right" /\ pre.hi = len(pre.a)
    \/ op = "poppush" /\ (pre.lo = pre.hi \/ (pre.lo <= pre.i /\ pre.i < pre.hi))

C19_Fatal ==
    C19_Violation =>
        /\ pc = "panic"
        /\ a = pre.a
        /\ lo = pre.lo /\ c = pre.c /\ hi = pre.hi

C19_Witness ==
    /\ pc = "panic"
    /\ op = "poppush"
    /\ pre.hi - pre.lo >= 2
    /\ pre.lo <= pre.i /\ pre.i < pre.hi
    /\ pre.a[pre.i] # pre.a[pre.c]

C19_WitnessPush ==
    /\ pc = "panic"
    /\ op = "push_right"
    /\ pre.hi > pre.lo

\* C20: with the Real counter, every exchange of two array elements made by
\* a c-heap operation increments the swap counter by exactly one, so after
\* any sequence of operations swaps equals the number of exchanges made.
C20_SwapsCounted ==
    cnt.real => cnt.swaps = cnt.exchanges

\* What the counter does keep: swaps never exceeds the exchanges, and the
\* two advance together in every operation but pop_right.
C20_SwapsCountedElsewhere ==
    [][/\ cnt'.swaps <= cnt'.exchanges
       /\ op' # "pop_right" =>
             cnt'.swaps - cnt.swaps = cnt'.exchanges - cnt.exchanges]_vars

C20_WitnessUncounted ==
    /\ op = "pop_right"
    /\ cnt.real
    /\ cnt.exchanges = cnt.swaps + 1
    /\ a # pre.a

\* C4: for lo <= md <= hi <= len(a) and two non-decreasing runs, merge
\* terminates (it does not panic) with a[lo..hi) non-decreasing, a
\* permutation of its original contents, and the rest of the array unchanged.
C4_Merge ==
    /\ pc # "panic"
    /\ pc = "done" => MergePost

\* What does hold of merge: it panics only in the debug build, only in the
\* debug_assert!(is_sorted(..)) at its head, and only when a run starts at
\* a.len(); every call that returns has merged the runs.
C4_MergeReturns ==
    /\ pc = "panic" => (debug /\ op = "merge" /\ (m_lo = len(a) \/ m_md = len(a)))
    /\ pc = "done" => MergePost

\* A merge over six or more elements that moved elements and returned.
C4_Witness ==
    /\ pc = "done"
    /\ m_hi - m_lo >= 6
    /\ a # input

\* C21: pop_left, pop_right, push_left, push_right, poppush(i) and pushpop(i)
\* on a valid c-heap never modify, and their sifts never read or swap, an
\* array element outside the union of the old and the new range [lo, hi),
\* other than the external slot i of poppush and pushpop.
C21_Ops == {"pop_left", "pop_right", "push_left", "push_right", "poppush", "pushpop"}

C21_Allowed ==
    (pre.lo..(pre.hi - 1)) \cup (lo..(hi - 1))
        \cup (IF op \in {"poppush", "pushpop"} THEN {pre.i} ELSE {})

C21_Locality ==
    op \in C21_Ops =>
        /\ DOMAIN a = DOMAIN pre.a
        /\ \A k \in DOMAIN a : k \notin C21_Allowed => a[k] = pre.a[k]
        /\ touched \subseteq C21_Allowed

C21_Witness ==
    /\ op = "push_right"
    /\ pre.lo > 0
    /\ Cardinality(touched) >= 2
    /\ a # pre.a

C21_WitnessPopPush ==
    /\ op = "poppush"
    /\ pre.i \in touched
    /\ Cardinality(touched) >= 3
    /\ Cardinality(DOMAIN a \ C21_Allowed) >= 1

\* C22: every operation on a c-heap view, slide_left, slide_right and
\* recenter included, preserves the multiset of the whole underlying array:
\* it only permutes elements and never duplicates or drops one.
C22_Permutes ==
    /\ DOMAIN a = DOMAIN pre.a
    /\ BagOf(a, 0, len(a)) = BagOf(pre.a, 0, len(pre.a))

C22_Witness ==
    /\ op = "slide_left"
    /\ a # pre.a
    /\ Cardinality(touched) >= 3

C22_WitnessRecenter ==
    /\ op = "recenter"
    /\ a # pre.a

\* C23: during merge on two sorted runs, at the top of every loop iteration
\* ix <= ch.lo <= ch.hi <= hi holds and, unless ix >= ch.hi, at least one
\* candidate is available; neither the "merge: logic error" nor the
\* "merge: ix is invalid!" panic is reached, and no assertion at the head of
\* poppush, push_right_swap, pop_left or slide_right fails.
C23_TopOfLoop == pc = "merge" /\ ix < m_hi

C23_MergeLoop ==
    /\ C23_TopOfLoop =>
           /\ ix <= lo /\ lo <= hi /\ hi <= m_hi
           /\ ix < hi => (ix < lo \/ lo < hi \/ hi < m_hi)
           /\ ix < hi => select(self, ix, m_hi).best.tag # "None"
           /\ ix < hi =>
                  LET r == merge_iter(self, ix, m_hi)
                  IN  /\ r.pc # "panic"
                      /\ r.call = "poppush" => poppush_ok(self, ix)
                      /\ r.call = "push_right_swap" => push_right_swap_ok(self, ix)
                      /\ r.call = "pop_left" => pop_left_ok(self)
                      /\ r.call = "slide_right" => slide_right_ok(self)
    /\ op \notin {"merge: logic error", "merge: ix is invalid!"}
    /\ pc = "panic" => op \notin {"poppush", "push_right_swap", "pop_left", "slide_right"}

\* In the middle of a merge, after a push_right_swap, with a non-empty heap
\* and elements of the right run still to come.
C23_Witness ==
    /\ C23_TopOfLoop
    /\ op = "push_right_swap"
    /\ ix < lo /\ lo < hi /\ hi < m_hi
    /\ hi - lo >= 2

\* C24: running_sort_left(a, run) with run >= 1 never pops an empty heap, and
\* for every k < n the final output[k] is the least of the multiset
\* input[0 .. min(k + run, n)) with the already emitted output[0 .. k)
\* removed; when run >= n the result is fully sorted.
C24_Window(k) == IF k + run < len(input) THEN k + run ELSE len(input)

C24_Left(k) ==
    [v \in Vals |-> BagOf(input, 0, C24_Window(k))[v] - BagOf(a, 0, k)[v]]

C24_RunningSortLeft ==
    driver = "running_sort_left" /\ run >= 1 =>
        /\ pc # "panic"
        /\ op = "running_sort_left" /\ lo # pre.lo => lo = pre.lo + 1 /\ lo <= hi
        /\ pc = "done" =>
               /\ DOMAIN a = DOMAIN input
               /\ \A k \in 0..(len(input) - 1) :
                      /\ \A v \in Vals : C24_Left(k)[v] >= 0
                      /\ C24_Left(k)[a[k]] > 0
                      /\ \A v \in Vals : C24_Left(k)[v] > 0 => a[k] <= v
               /\ run >= len(input) => SortedPermutation

\* A run shorter than the input whose tail was drained from the heap, and
\* a run at least as long as the input.
C24_Witness ==
    /\ driver = "running_sort_left"
    /\ pc = "done"
    /\ run >= 2
    /\ len(input) >= run + 2
    /\ a # input
    /\ ~SortedPermutation

C24_WitnessSorted ==
    /\ driver = "running_sort_left"
    /\ pc = "done"
    /\ run >= len(input)
    /\ len(input) >= 3
    /\ a # input

\* C25: sift_out, sift_in and recenter terminate on a well-shaped view: each
\* sift_out iteration moves the current node strictly farther from c within
\* [lo, hi), each sift_in iteration moves it strictly closer to c and stops
\* at c at the latest, and equal elements, which are swapped, cannot cause
\* an endless loop.  Termination is stated by a variant: a natural number
\* that every step of the three loops makes smaller.
Dist(x) == IF x >= c THEN x - c ELSE c - x

InSiftOut == pc \in {"sift_out", "lo_sift", "hi_sift"}

\* Passes the running sift can still make.
SiftLeft ==
    IF InSiftOut THEN (hi - lo) - Dist(ix)
    ELSE IF pc = "sift_in" THEN Dist(ix) + 1
    ELSE 0

\* Calls of sift_out that recenter's loops have still to start.
CallsLeft ==
    IF pc \in {"lo_loop", "lo_sift"}
    THEN (c - m_lo) + (get_recenter_limit(hi, c) - c)
    ELSE IF pc \in {"hi_loop", "hi_sift"} THEN m_lo - c + 1
    ELSE 0

Variant ==
    IF pc = "done" THEN 0
    ELSE IF pc \in {"sift_out", "sift_in"} THEN SiftLeft
    ELSE 1 + 2 * (CallsLeft * (hi - lo + 2) + SiftLeft)
           + (IF pc \in {"lo_loop", "lo_sift"} THEN 1 ELSE 0)

\* What the last pass did, read off the node it started at (pre.i).
C25_Pass ==
    /\ op = "sift_out" =>
           /\ lo <= pre.i /\ pre.i < hi
           /\ IF InSiftOut
              THEN /\ Dist(ix) > Dist(pre.i)
                   /\ lo <= ix /\ ix < hi
                   /\ a = slice_swap(pre.a, pre.i, ix)
              ELSE ix = pre.i /\ a = pre.a
    /\ op = "sift_in" =>
           /\ pre.i # c
           /\ IF pc = "sift_in"
              THEN /\ Dist(ix) < Dist(pre.i)
                   /\ lo <= ix /\ ix < hi
                   /\ a = slice_swap(pre.a, pre.i, ix)
              ELSE ix = pre.i /\ a = pre.a
    /\ pc = "sift_in" => Dist(ix) >= 0
    /\ run <= hi - lo

C25_Step ==
    /\ Variant \in Nat
    /\ Variant' \in Nat
    /\ Variant' < Variant
    /\ C25_Pass'

C25_Terminates == [][C25_Step]_vars

\* A sift_out in its second pass that has just exchanged two equal elements.
C25_Witness ==
    /\ op = "sift_out"
    /\ InSiftOut
    /\ run >= 2
    /\ a[ix] = a[pre.i]

\* A sift_in that reached the root after two passes, and a recenter that
\* returned after moving elements.
C25_WitnessIn ==
    /\ op = "sift_in"
    /\ pc = "sift_in"
    /\ ix = c
    /\ run >= 2

C25_WitnessRecenter ==
    /\ driver = "recenter"
    /\ pc = "done"
    /\ hi - lo >= 4
    /\ a # input

\* The loops taken pass by pass end in the view the calls return.
C25_SameAsCall ==
    pc = "done" =>
        LET s0 == [a |-> input, lo |-> lo, c |-> c, hi |-> hi,
                   cnt |-> RealCounter, touched |-> {}]
            r  == IF driver = "sift_out" THEN sift_out(s0, m_md)
                  ELSE IF driver = "sift_in" THEN sift_in(s0, m_md)
                  ELSE recenter(s0)
        IN  a = r.a /\ cnt = r.cnt

\* C26: for every center c and node x, whenever left_child(x, c) or
\* right_child(x, c) is not the out-of-range sentinel, the parent of that
\* child with respect to c is x.
C26_ParentOfChild ==
    op = "get_parent" =>
        /\ run # c
        /\ pc = "parent"
        /\ m_md = ix

\* The parent of a right child to the left of the center.
C26_Witness ==
    /\ op = "get_parent"
    /\ pc = "parent"
    /\ ix < c
    /\ run = m_hi
    /\ m_lo # USIZE_MAX

C26_WitnessRoot ==
    /\ op = "get_parent"
    /\ pc = "parent"
    /\ ix = c
    /\ run = m_lo

\* C27: for every node x and center c for which both children are in range
\* (neither is the sentinel), left_child(x, c) < right_child(x, c); in
\* particular the two are never equal.
C27_BothInRange ==
    /\ pc \in {"children", "parent"}
    /\ m_lo # USIZE_MAX
    /\ m_hi # USIZE_MAX

C27_LeftBelowRight == C27_BothInRange => m_lo < m_hi

\* C27, as the code has it: the two children are never equal; the left one
\* is the one nearer to the center, so it is the smaller index at and to
\* the right of the center and the larger index to the left of it.
C27_LeftNearer ==
    C27_BothInRange =>
        /\ m_lo # m_hi
        /\ ix >= c => m_lo < m_hi
        /\ ix < c => m_lo > m_hi

C27_Witness ==
    /\ C27_BothInRange
    /\ ix < c
    /\ m_lo = m_hi + 1

\* C28: the insertion-sort base case counts each comparison and each swap:
\* after small_sort(a, lo, hi) with the Real counter, the compare counter has
\* increased by exactly the number of element comparisons a[j] < a[j - 1]
\* that were evaluated, and the swap counter by exactly the number of
\* exchanges.
C28_SmallSortReturned ==
    /\ driver = "merge_sort"
    /\ op = "return"
    /\ m_hi - m_lo <= 4
    /\ cnt.real

C28_Counted ==
    C28_SmallSortReturned =>
        /\ cnt.compares = cnt.evaluated
        /\ cnt.swaps = cnt.exchanges

\* What small_sort does count: every exchange as a swap, and as compares the
\* comparisons evaluated plus one for each element that sank all the way to
\* lo, whose loop ended on `j > lo` without a comparison.
C28_SwapsExact ==
    C28_SmallSortReturned =>
        /\ cnt.swaps = cnt.exchanges
        /\ cnt.evaluated <= cnt.compares
        /\ m_hi > m_lo => cnt.compares = m_hi - m_lo - 1 + cnt.swaps

C28_WitnessOver ==
    /\ C28_SmallSortReturned
    /\ cnt.compares > cnt.evaluated

====
